---- MODULE Spec2Model ----
(***************************************************************************)
(* Model of all_with_news.py: the tick loop of main() with the concurrent  *)
(* key_listener thread, the price/change resolver of fetch_all_stocks with *)
(* the display sort, and the translation cache of the news module.         *)
(***************************************************************************)
EXTENDS Integers, Sequences, FiniteSets, TLC

VARIABLES
    \* ---- main() and key_listener() ----
    pc,                  \* position of the main thread (source line reached)
    kpc,                 \* position of the key_listener thread
    stop_flag, manual_refresh_flag, show_more_news,   \* module globals
    clock,               \* wall clock, whole seconds (time.time())
    now,                 \* main(): now
    prices,              \* main(): prices (symbols fetched this tick)
    force_refresh,       \* main(): force_refresh
    stock_df,            \* main(): stock_df ("empty" or "rows")
    news_list,           \* main(): news_list ("empty" or "items")
    last_stock_update, last_news_update,
    news_count,          \* main(): news_count of the last news fetch
    i,                   \* main(): index of the idle wait loop
    fetched,             \* data classes whose fetch was called in this tick
    forced_only,         \* history: classes fetched in this tick that neither age nor an empty snapshot made due
    w_since_read,        \* history: a `w` was handled since the last read at line 373
    stopped_in_wait,     \* history: stop_flag was set while main was in the idle wait
    sleeps_since_stop,   \* history: sleeps started after stop_flag was set (capped at 2)
    \* ---- fetch_all_stocks() and the equities display of main() ----
    spc,                 \* "input", "fetched" (after line 379), "shown" (after line 453)
    stocks_txt,          \* lines of stocks.txt, each a sequence of its parts
    quotes_all,          \* tk.quotes: ticker -> QuoteRecord (or a non-dict value)
    active_price_key, active_change_key,    \* from detect_session
    df,                  \* the frame fetch_all_stocks returns (sequence of rows)
    df_sorted,           \* main(): df_sorted as printed
    \* ---- fetch_latest_news() and the translation cache ----
    npc,                 \* position in fetch_latest_news ("ready": not in a call)
    run,                 \* number of the process run
    refreshes,           \* calls of fetch_latest_news so far, over all runs
    hash_seed,           \* the string-hash seed of this process run
    cache_file,          \* news_translation_cache.pkl: [st, data]
    cache,               \* fetch_latest_news(): cache
    sorted_news,         \* fetch_latest_news(): the items of sorted_news still to do
    news_out,            \* fetch_latest_news(): news_list
    computed,            \* history: key -> [n, text]: backend calls for the key on this
                         \* cache object and the text the first of them stored
    last_call,           \* history: the last call of translate_news_text_cached
    \* ---- fetch_prices_from_gate() ----
    gpc,                 \* "input", "returned" (after line 68)
    responses,           \* what the exchange answers to the request of each symbol
    gate_prices,         \* fetch_prices_from_gate(): prices, as returned
    \* ---- detect_session() ----
    dpc,                 \* "input", "detected" (after line 98)
    now_hour, now_minute,   \* now.hour, now.minute in America/New_York
    session              \* the returned <<phase, active_price_key, active_change_key>>

loopVars == <<pc, kpc, stop_flag, manual_refresh_flag, show_more_news, clock, now,
              prices, force_refresh, stock_df, news_list, last_stock_update,
              last_news_update, news_count, i, fetched, forced_only, w_since_read,
              stopped_in_wait, sleeps_since_stop,
              gpc, responses, gate_prices, dpc, now_hour, now_minute, session>>

stockVars == <<spc, stocks_txt, quotes_all, active_price_key, active_change_key,
               df, df_sorted>>

newsVars == <<npc, run, refreshes, hash_seed, cache_file, cache, sorted_news, news_out,
              computed, last_call>>

gateVars == <<gpc, responses, gate_prices>>

sessionVars == <<dpc, now_hour, now_minute, session>>

vars == <<loopVars, stockVars, newsVars>>

(***************************************************************************)
(* Bounds and program constants                                            *)
(***************************************************************************)
Horizon == 360            \* no tick starts later than this many seconds after start
StartTime == 1000         \* time.time() when main() enters the loop

STOCK_CADENCE == 300
NEWS_CADENCE == 300
WAIT_STEPS == 60
RESET_STEP == 30
NEWS_DEFAULT == 5
NEWS_MORE == 10

Symbols == <<"BTCUSDT", "ETHUSDT", "BNBUSDT">>
Classes == {"crypto", "equities", "news"}
Keys == {"q", "Q", "w", "W", "x"}

WaitPcs == {"L516", "L519a", "L519b", "L520", "L521"}
\* main has returned (line 523) or an exception left it; the daemon listener dies with it
Ended == {"done", "crashed"}

(***************************************************************************)
(* key_listener                                                            *)
(***************************************************************************)
Lower(k) == IF k = "Q" THEN "q" ELSE IF k = "W" THEN "w" ELSE k

\* lines 46-49: key == 'q'
KeyQuitClears ==
    /\ pc \notin Ended
    /\ kpc = "L46"
    /\ \E k \in Keys : Lower(k) = "q"
    /\ stop_flag' = TRUE
    /\ manual_refresh_flag' = FALSE
    /\ kpc' = "done"
    /\ stopped_in_wait' = (stopped_in_wait \/ (~stop_flag /\ pc \in WaitPcs))
    /\ UNCHANGED <<pc, show_more_news, clock, now, prices,
                   force_refresh, stock_df, news_list, last_stock_update,
                   last_news_update, news_count, i, fetched, forced_only, w_since_read,
                   sleeps_since_stop, stockVars, newsVars,
                   gateVars, sessionVars>>
KeyQuit ==
    /\ pc \notin Ended
    /\ kpc = "L46"
    /\ \E k \in Keys : Lower(k) = "q"
    /\ stop_flag' = TRUE
    /\ kpc' = "done"
    /\ stopped_in_wait' = (stopped_in_wait \/ (~stop_flag /\ pc \in WaitPcs))
    /\ UNCHANGED <<pc, manual_refresh_flag, show_more_news, clock, now, prices,
                   force_refresh, stock_df, news_list, last_stock_update,
                   last_news_update, news_count, i, fetched, forced_only, w_since_read,
                   sleeps_since_stop, stockVars, newsVars,
                   gateVars, sessionVars>>

\* lines 46, 50-51: key == 'w', first assignment
KeyRefresh51 ==
    /\ pc \notin Ended
    /\ kpc = "L46"
    /\ \E k \in Keys : Lower(k) = "w"
    /\ manual_refresh_flag' = TRUE
    /\ w_since_read' = TRUE
    /\ kpc' = "L52"
    /\ UNCHANGED <<pc, stop_flag, show_more_news, clock, now, prices,
                   force_refresh, stock_df, news_list, last_stock_update,
                   last_news_update, news_count, i, fetched, forced_only,
                   stopped_in_wait, sleeps_since_stop, stockVars, newsVars,
                   gateVars, sessionVars>>

\* lines 52-54: second assignment of the 'w' branch
KeyRefresh52 ==
    /\ pc \notin Ended
    /\ kpc = "L52"
    /\ show_more_news' = TRUE
    /\ kpc' = "L46"
    /\ UNCHANGED <<pc, stop_flag, manual_refresh_flag, clock, now, prices,
                   force_refresh, stock_df, news_list, last_stock_update,
                   last_news_update, news_count, i, fetched, forced_only, w_since_read,
                   stopped_in_wait, sleeps_since_stop, stockVars, newsVars,
                   gateVars, sessionVars>>

\* line 46 with any other key: neither branch is taken
KeyOther ==
    /\ pc \notin Ended
    /\ kpc = "L46"
    /\ \E k \in Keys : Lower(k) \notin {"q", "w"}
    /\ UNCHANGED <<loopVars, stockVars, newsVars>>

key_listener == KeyQuit \/ KeyRefresh51 \/ KeyRefresh52 \/ KeyOther

(***************************************************************************)
(* main: the tick                                                          *)
(***************************************************************************)
\* fetch_prices_from_gate with the request of symbol number `failAt` failing
\* (failAt = 4: none fails): the try wraps the whole for loop.
fetch_prices_from_gate(failAt) ==
    {Symbols[n] : n \in {m \in 1..3 : m < failAt}}

\* line 378
StockDueOnAge(t, last, frame, force) == t - last >= STOCK_CADENCE \/ frame = "empty" \/ force
StockDueNoForce(t, last, frame, force) == t - last > STOCK_CADENCE \/ frame = "empty"
StockDue(t, last, frame, force) == t - last > STOCK_CADENCE \/ frame = "empty" \/ force

\* line 383
NewsDue(t, last, nl, force) == t - last > NEWS_CADENCE \/ nl = "empty" \/ force

\* line 385
NewsCount(more) == IF more THEN NEWS_MORE ELSE NEWS_DEFAULT

\* line 367: while not stop_flag
L367 ==
    /\ pc = "L367"
    /\ IF stop_flag THEN pc' = "done"
       ELSE /\ clock <= StartTime + Horizon
            /\ pc' = "L368"
    /\ UNCHANGED <<kpc, stop_flag, manual_refresh_flag, show_more_news, clock, now,
                   prices, force_refresh, stock_df, news_list, last_stock_update,
                   last_news_update, news_count, i, fetched, forced_only, w_since_read,
                   stopped_in_wait, sleeps_since_stop, stockVars, newsVars,
                   gateVars, sessionVars>>

\* lines 368-370: now = time.time(); prices = fetch_prices_from_gate()
L368 ==
    /\ pc = "L368"
    /\ now' = clock
    /\ \E failAt \in 1..4 : prices' = fetch_prices_from_gate(failAt)
    /\ fetched' = {"crypto"}
    /\ forced_only' = {}
    /\ pc' = "L373"
    /\ UNCHANGED <<kpc, stop_flag, manual_refresh_flag, show_more_news, clock,
                   force_refresh, stock_df, news_list, last_stock_update,
                   last_news_update, news_count, i, w_since_read,
                   stopped_in_wait, sleeps_since_stop, stockVars, newsVars,
                   gateVars, sessionVars>>

\* line 373: force_refresh = manual_refresh_flag
L373 ==
    /\ pc = "L373"
    /\ force_refresh' = manual_refresh_flag
    /\ w_since_read' = FALSE
    /\ pc' = "L374"
    /\ UNCHANGED <<kpc, stop_flag, manual_refresh_flag, show_more_news, clock, now,
                   prices, stock_df, news_list, last_stock_update,
                   last_news_update, news_count, i, fetched, forced_only,
                   stopped_in_wait, sleeps_since_stop, stockVars, newsVars,
                   gateVars, sessionVars>>

\* line 374: if manual_refresh_flag
L374 ==
    /\ pc = "L374"
    /\ pc' = IF manual_refresh_flag THEN "L375" ELSE "L378"
    /\ UNCHANGED <<kpc, stop_flag, manual_refresh_flag, show_more_news, clock, now,
                   prices, force_refresh, stock_df, news_list, last_stock_update,
                   last_news_update, news_count, i, fetched, forced_only, w_since_read,
                   stopped_in_wait, sleeps_since_stop, stockVars, newsVars,
                   gateVars, sessionVars>>

\* the value line 375 stores
Cleared(flag) == FALSE

\* line 375: manual_refresh_flag = False
L375 ==
    /\ pc = "L375"
    /\ manual_refresh_flag' = Cleared(manual_refresh_flag)
    /\ pc' = "L378"
    /\ UNCHANGED <<kpc, stop_flag, show_more_news, clock, now,
                   prices, force_refresh, stock_df, news_list, last_stock_update,
                   last_news_update, news_count, i, fetched, forced_only, w_since_read,
                   stopped_in_wait, sleeps_since_stop, stockVars, newsVars,
                   gateVars, sessionVars>>

\* lines 378-380, the fetch returning a frame (non-empty, or empty when
\* read_stocks yields no tickers)
L378Fetch ==
    /\ pc = "L378"
    /\ StockDue(now, last_stock_update, stock_df, force_refresh)
    /\ \E frame \in {"rows", "empty"} : stock_df' = frame
    /\ last_stock_update' = now
    /\ fetched' = fetched \cup {"equities"}
    /\ forced_only' = IF now - last_stock_update <= STOCK_CADENCE /\ stock_df = "rows"
                      THEN forced_only \cup {"equities"} ELSE forced_only
    /\ pc' = "L383"
    /\ UNCHANGED <<kpc, stop_flag, manual_refresh_flag, show_more_news, clock, now,
                   prices, force_refresh, news_list,
                   last_news_update, news_count, i, w_since_read,
                   stopped_in_wait, sleeps_since_stop, stockVars, newsVars,
                   gateVars, sessionVars>>

\* line 379 raising: Ticker(...)/tk.quotes (lines 130-131) and float() of a
\* non-numeric field (lines 187-189) are inside no try, nor is the call
L378Raise ==
    /\ pc = "L378"
    /\ StockDue(now, last_stock_update, stock_df, force_refresh)
    /\ fetched' = fetched \cup {"equities"}
    /\ forced_only' = IF now - last_stock_update <= STOCK_CADENCE /\ stock_df = "rows"
                      THEN forced_only \cup {"equities"} ELSE forced_only
    /\ pc' = "crashed"
    /\ UNCHANGED <<kpc, stop_flag, manual_refresh_flag, show_more_news, clock, now,
                   prices, force_refresh, stock_df, news_list, last_stock_update,
                   last_news_update, news_count, i, w_since_read,
                   stopped_in_wait, sleeps_since_stop, stockVars, newsVars,
                   gateVars, sessionVars>>

\* line 378 false
L378Skip ==
    /\ pc = "L378"
    /\ ~StockDue(now, last_stock_update, stock_df, force_refresh)
    /\ pc' = "L383"
    /\ UNCHANGED <<kpc, stop_flag, manual_refresh_flag, show_more_news, clock, now,
                   prices, force_refresh, stock_df, news_list, last_stock_update,
                   last_news_update, news_count, i, fetched, forced_only, w_since_read,
                   stopped_in_wait, sleeps_since_stop, stockVars, newsVars,
                   gateVars, sessionVars>>

\* lines 383-387, fetch_latest_news returning the entries built from a list
\* payload: items, or [] for the payload []
L383Fetch ==
    /\ pc = "L383"
    /\ NewsDue(now, last_news_update, news_list, force_refresh)
    /\ news_count' = NewsCount(show_more_news)
    /\ \E nl \in {"items", "empty"} : news_list' = nl
    /\ last_news_update' = now
    /\ fetched' = fetched \cup {"news"}
    /\ forced_only' = IF now - last_news_update <= NEWS_CADENCE /\ news_list = "items"
                      THEN forced_only \cup {"news"} ELSE forced_only
    /\ pc' = "L394"
    /\ UNCHANGED <<kpc, stop_flag, manual_refresh_flag, show_more_news, clock, now,
                   prices, force_refresh, stock_df, last_stock_update,
                   i, w_since_read, stopped_in_wait, sleeps_since_stop, stockVars, newsVars,
                   gateVars, sessionVars>>

\* lines 383-387, fetch_latest_news returning [] at line 297 because
\* fetch_news_data caught a request or JSON error and returned None (lines
\* 221-226), or because the payload is no list
L383Fail ==
    /\ pc = "L383"
    /\ NewsDue(now, last_news_update, news_list, force_refresh)
    /\ news_count' = NewsCount(show_more_news)
    /\ news_list' = "empty"
    /\ last_news_update' = now
    /\ fetched' = fetched \cup {"news"}
    /\ forced_only' = IF now - last_news_update <= NEWS_CADENCE /\ news_list = "items"
                      THEN forced_only \cup {"news"} ELSE forced_only
    /\ pc' = "L394"
    /\ UNCHANGED <<kpc, stop_flag, manual_refresh_flag, show_more_news, clock, now,
                   prices, force_refresh, stock_df, last_stock_update,
                   i, w_since_read, stopped_in_wait, sleeps_since_stop, stockVars, newsVars,
                   gateVars, sessionVars>>

\* line 386 raising: sorted(data, key=lambda x: x.get(...)) at line 306 on a
\* list item that is no dict is inside no try, nor is the call
L383Raise ==
    /\ pc = "L383"
    /\ NewsDue(now, last_news_update, news_list, force_refresh)
    /\ news_count' = NewsCount(show_more_news)
    /\ fetched' = fetched \cup {"news"}
    /\ forced_only' = IF now - last_news_update <= NEWS_CADENCE /\ news_list = "items"
                      THEN forced_only \cup {"news"} ELSE forced_only
    /\ pc' = "crashed"
    /\ UNCHANGED <<kpc, stop_flag, manual_refresh_flag, show_more_news, clock, now,
                   prices, force_refresh, stock_df, news_list, last_stock_update,
                   last_news_update, i, w_since_read,
                   stopped_in_wait, sleeps_since_stop, stockVars, newsVars,
                   gateVars, sessionVars>>

\* line 383 false
L383Skip ==
    /\ pc = "L383"
    /\ ~NewsDue(now, last_news_update, news_list, force_refresh)
    /\ pc' = "L394"
    /\ UNCHANGED <<kpc, stop_flag, manual_refresh_flag, show_more_news, clock, now,
                   prices, force_refresh, stock_df, news_list, last_stock_update,
                   last_news_update, news_count, i, fetched, forced_only, w_since_read,
                   stopped_in_wait, sleeps_since_stop, stockVars, newsVars,
                   gateVars, sessionVars>>

\* lines 394-515: the display, then the idle wait starts with i = 0
L394 ==
    /\ pc = "L394"
    /\ i' = 0
    /\ pc' = "L516"
    /\ UNCHANGED <<kpc, stop_flag, manual_refresh_flag, show_more_news, clock, now,
                   prices, force_refresh, stock_df, news_list, last_stock_update,
                   last_news_update, news_count, fetched, forced_only, w_since_read,
                   stopped_in_wait, sleeps_since_stop, stockVars, newsVars,
                   gateVars, sessionVars>>

(***************************************************************************)
(* main: the idle wait, lines 515-521                                      *)
(***************************************************************************)
\* where line 516 goes for a value of stop_flag
WaitExitNever(stop, idx) == IF idx = RESET_STEP THEN "L519a" ELSE "L521"
WaitExit(stop, idx) ==
    IF stop THEN "L367" ELSE IF idx = RESET_STEP THEN "L519a" ELSE "L521"

\* lines 516-517 (and `i == 30`, which reads no shared variable)
L516 ==
    /\ pc = "L516"
    /\ pc' = WaitExit(stop_flag, i)
    /\ UNCHANGED <<kpc, stop_flag, manual_refresh_flag, show_more_news, clock, now,
                   prices, force_refresh, stock_df, news_list, last_stock_update,
                   last_news_update, news_count, i, fetched, forced_only, w_since_read,
                   stopped_in_wait, sleeps_since_stop, stockVars, newsVars,
                   gateVars, sessionVars>>

\* line 519: `and show_more_news`
L519a ==
    /\ pc = "L519a"
    /\ pc' = IF show_more_news THEN "L519b" ELSE "L521"
    /\ UNCHANGED <<kpc, stop_flag, manual_refresh_flag, show_more_news, clock, now,
                   prices, force_refresh, stock_df, news_list, last_stock_update,
                   last_news_update, news_count, i, fetched, forced_only, w_since_read,
                   stopped_in_wait, sleeps_since_stop, stockVars, newsVars,
                   gateVars, sessionVars>>

\* line 519: `and not manual_refresh_flag`
L519b ==
    /\ pc = "L519b"
    /\ pc' = IF manual_refresh_flag THEN "L521" ELSE "L520"
    /\ UNCHANGED <<kpc, stop_flag, manual_refresh_flag, show_more_news, clock, now,
                   prices, force_refresh, stock_df, news_list, last_stock_update,
                   last_news_update, news_count, i, fetched, forced_only, w_since_read,
                   stopped_in_wait, sleeps_since_stop, stockVars, newsVars,
                   gateVars, sessionVars>>

\* line 520: show_more_news = False
L520 ==
    /\ pc = "L520"
    /\ show_more_news' = FALSE
    /\ pc' = "L521"
    /\ UNCHANGED <<kpc, stop_flag, manual_refresh_flag, clock, now,
                   prices, force_refresh, stock_df, news_list, last_stock_update,
                   last_news_update, news_count, i, fetched, forced_only, w_since_read,
                   stopped_in_wait, sleeps_since_stop, stockVars, newsVars,
                   gateVars, sessionVars>>

\* line 521: time.sleep(1), then the next i; after i = 59 the for loop ends
L521 ==
    /\ pc = "L521"
    /\ clock' = clock + 1
    /\ i' = i + 1
    /\ pc' = IF i + 1 = WAIT_STEPS THEN "L367" ELSE "L516"
    /\ sleeps_since_stop' =
          IF stop_flag /\ sleeps_since_stop < 2 THEN sleeps_since_stop + 1
          ELSE sleeps_since_stop
    /\ UNCHANGED <<kpc, stop_flag, manual_refresh_flag, show_more_news, now,
                   prices, force_refresh, stock_df, news_list, last_stock_update,
                   last_news_update, news_count, fetched, forced_only, w_since_read,
                   stopped_in_wait, stockVars, newsVars,
                   gateVars, sessionVars>>

main == \/ L367 \/ L368 \/ L373 \/ L374 \/ L375
        \/ L378Fetch \/ L378Raise \/ L378Skip
        \/ L383Fetch \/ L383Fail \/ L383Raise \/ L383Skip
        \/ L394 \/ L516 \/ L519a \/ L519b \/ L520 \/ L521

(***************************************************************************)
(* Numbers and their display strings.  A number is an integer count of     *)
(* thousandths; a string is a sequence of one-character strings.           *)
(***************************************************************************)
\* an optional number: None, or <<x>> for the number x
None == <<>>
Some(x) == <<x>>
Val(o) == o[1]
NA == <<"N", "/", "A">>

Digit(d) == <<"0", "1", "2", "3", "4", "5", "6", "7", "8", "9">>[d + 1]
IsDigit(ch) == \E d \in 0..9 : Digit(d) = ch
DigitVal(ch) == CHOOSE d \in 0..9 : Digit(d) = ch

RECURSIVE NatStr(_)
NatStr(n) == IF n < 10 THEN <<Digit(n)>> ELSE NatStr(n \div 10) \o <<Digit(n % 10)>>

Abs(x) == IF x < 0 THEN -x ELSE x

\* f"{float(x):.2f}" and, with plus, f"{float(x):+.2f}" (lines 187-189): x in
\* thousandths is rounded to hundredths (no input ends in a 5, a tie)
Fmt2(x, plus) ==
    LET h == (Abs(x) + 5) \div 10
        sign == IF x < 0 THEN <<"-">> ELSE IF plus THEN <<"+">> ELSE <<>>
    IN sign \o NatStr(h \div 100) \o <<".", Digit((h % 100) \div 10), Digit(h % 10)>>

\* str.rjust(8)
RECURSIVE Rjust(_, _)
Rjust(str, w) == IF Len(str) >= w THEN str ELSE Rjust(<<" ">> \o str, w)

\* str.replace(c, "")
Remove(str, c) == SelectSeq(str, LAMBDA ch : ch # c)

\* float(str) for the strings line 188 builds, in hundredths: an optional
\* "-", digits, ".", two digits; anything else here ("N/A") is a ValueError
ParseFloat(str) ==
    LET neg == Len(str) > 0 /\ str[1] = "-"
        body == IF neg THEN Tail(str) ELSE str
        n == Len(body)
        ok == /\ n >= 4
              /\ body[n - 2] = "."
              /\ \A k \in (1..n) \ {n - 2} : IsDigit(body[k])
        RECURSIVE IntOf(_)
        IntOf(k) == IF k = 0 THEN 0 ELSE 10 * IntOf(k - 1) + DigitVal(body[k])
        mag == 1000 * IntOf(n - 3) + 100 * DigitVal(body[n - 1]) + 10 * DigitVal(body[n])
    IN IF ok THEN [ok |-> TRUE, v |-> (IF neg THEN -mag ELSE mag) \div 10]
       ELSE [ok |-> FALSE, v |-> 0]

\* lines 436-440
parse_pct(str) ==
    LET r == ParseFloat(Remove(Remove(str, "%"), "+")) IN IF r.ok THEN r.v ELSE 0

\* lines 446-451 (the appended arrow is a blank in this source)
add_arrow(str) ==
    IF Len(str) > 0 /\ str[1] \in {"+", "-"} THEN str \o <<" ">> ELSE str

(***************************************************************************)
(* read_stocks and fetch_all_stocks                                        *)
(***************************************************************************)
ROCKET == "ROCKET"       \* the mark of a second column "1"
BOLT == "BOLT"           \* the mark of a second column "2"

\* str.upper() on the tickers used here
Upper(t) == IF t = "nvda" THEN "NVDA" ELSE t

\* lines 112-117
MarkOf(parts) ==
    IF Len(parts) > 1
    THEN IF parts[2] = "1" THEN ROCKET ELSE IF parts[2] = "2" THEN BOLT ELSE ""
    ELSE ""

\* lines 101-122: the tickers in file order and the marks; a file that does
\* not exist is read as no line
RECURSIVE read_tickers(_)
read_tickers(lines) ==
    IF lines = <<>> THEN <<>>
    ELSE IF Head(lines) = <<>> THEN read_tickers(Tail(lines))
    ELSE <<Upper(Head(lines)[1])>> \o read_tickers(Tail(lines))

RECURSIVE read_marks(_)
read_marks(lines) ==
    IF lines = <<>> THEN <<>>
    ELSE LET rest == read_marks(SubSeq(lines, 1, Len(lines) - 1))
             parts == lines[Len(lines)]
         IN IF parts # <<>> /\ MarkOf(parts) # ""
            THEN <<<<Upper(parts[1]), MarkOf(parts)>>>> \o rest
            ELSE rest

\* marks.get(t, ""): the last line of t that carries a mark decides
marks_get(lines, t) ==
    LET ms == read_marks(lines)
        hits == {n \in 1..Len(ms) : ms[n][1] = t}
    IN IF hits = {} THEN "" ELSE ms[CHOOSE n \in hits : \A m \in hits : n <= m][2]

PriceKeys == <<"preMarketPrice", "regularMarketPrice", "postMarketPrice",
               "overnightMarketPrice">>
\* lines 140-145
field_pairs ==
    << <<"preMarketPrice", "preMarketChangePercent">>,
       <<"regularMarketPrice", "regularMarketChangePercent">>,
       <<"postMarketPrice", "postMarketChangePercent">>,
       <<"overnightMarketPrice", "overnightMarketChangePercent">> >>
Fields == {field_pairs[n][m] : n \in 1..4, m \in 1..2}

\* lines 175-179
matching_cf(pf) == field_pairs[CHOOSE n \in 1..4 : field_pairs[n][1] = pf][2]

\* lines 157-168
fallback_order_swapped(apk) ==
    IF apk = "preMarketPrice"
    THEN <<"regularMarketPrice", "overnightMarketPrice", "postMarketPrice">>
    ELSE IF apk = "regularMarketPrice"
    THEN <<"postMarketPrice", "preMarketPrice", "overnightMarketPrice">>
    ELSE IF apk = "postMarketPrice"
    THEN <<"preMarketPrice", "regularMarketPrice", "overnightMarketPrice">>
    ELSE <<"regularMarketPrice", "postMarketPrice", "preMarketPrice">>
fallback_order(apk) ==
    IF apk = "preMarketPrice"
    THEN <<"overnightMarketPrice", "regularMarketPrice", "postMarketPrice">>
    ELSE IF apk = "regularMarketPrice"
    THEN <<"preMarketPrice", "postMarketPrice", "overnightMarketPrice">>
    ELSE IF apk = "postMarketPrice"
    THEN <<"regularMarketPrice", "preMarketPrice", "overnightMarketPrice">>
    ELSE <<"postMarketPrice", "regularMarketPrice", "preMarketPrice">>

\* lines 135-137: the record of ticker t, {} when quotes_all has none or holds
\* something that is no dict
EmptyQuote == [f \in Fields |-> None]
QuoteOf(qa, t) ==
    IF t \in DOMAIN qa /\ qa[t].dict THEN qa[t].q ELSE EmptyQuote

\* lines 150-182: active_price and active_change after the fallback
resolve_active_change(q, apk, ack) ==
    [price |-> q[apk], change |-> q[ack]]
resolve(q, apk, ack) ==
    IF q[apk] # None THEN [price |-> q[apk], change |-> q[ack]]
    ELSE LET order == fallback_order(apk)
             hits == {n \in 1..3 : q[order[n]] # None}
         IN IF hits = {} THEN [price |-> None, change |-> q[ack]]
            ELSE LET pf == order[CHOOSE n \in hits : \A m \in hits : n <= m]
                 IN [price |-> q[pf], change |-> q[matching_cf(pf)]]

\* lines 134-206: the row of ticker t
stock_row(lines, qa, t, apk, ack) ==
    LET q == QuoteOf(qa, t)
        prev_close == q["regularMarketPrice"]
        r == resolve(q, apk, ack)
        prefix == marks_get(lines, t)
    IN [LastClose |-> IF prev_close # None THEN Rjust(Fmt2(Val(prev_close), FALSE), 8)
                      ELSE Rjust(NA, 8),
        Ticker |-> IF prefix # "" THEN <<prefix, t>> ELSE <<"  ", t>>,
        Priority |-> IF prefix # "" THEN 1 ELSE 0,
        Price |-> IF r.price # None THEN Fmt2(Val(r.price), FALSE) ELSE NA,
        Change |-> IF r.change # None THEN Fmt2(Val(r.change), TRUE) \o <<"%">> ELSE NA]

\* lines 125-209
fetch_all_stocks(lines, qa, apk, ack) ==
    LET tickers == read_tickers(lines)
    IN [n \in 1..Len(tickers) |-> stock_row(lines, qa, tickers[n], apk, ack)]

(***************************************************************************)
(* The equities display, lines 432-453                                     *)
(***************************************************************************)
\* the sort key of sort_values(by=["Priority", "val"], ascending=[False, False])
BeforeNoPriority(a, b) == parse_pct(a.Change) > parse_pct(b.Change)
Before(a, b) ==
    \/ a.Priority > b.Priority
    \/ a.Priority = b.Priority /\ parse_pct(a.Change) > parse_pct(b.Change)

\* a stable sort (np.lexsort): row a is placed after the rows that are not
\* after it in this order
RECURSIVE InsertRow(_, _)
InsertRow(sorted, a) ==
    IF sorted = <<>> THEN <<a>>
    ELSE IF Before(a, Head(sorted)) THEN <<a>> \o sorted
    ELSE <<Head(sorted)>> \o InsertRow(Tail(sorted), a)

RECURSIVE sort_values(_)
sort_values(rows) ==
    IF rows = <<>> THEN <<>>
    ELSE InsertRow(sort_values(SubSeq(rows, 1, Len(rows) - 1)), rows[Len(rows)])

\* lines 433-453: sorted, Priority and val dropped, the arrow added
display_rows(rows) ==
    LET sorted == sort_values(rows)
    IN [n \in 1..Len(sorted) |->
          [LastClose |-> sorted[n].LastClose, Ticker |-> sorted[n].Ticker,
           Price |-> sorted[n].Price, Change |-> add_arrow(sorted[n].Change)]]

(***************************************************************************)
(* The equities specification: fetch_all_stocks on a stocks.txt and a      *)
(* quotes payload, then the display of main                                *)
(***************************************************************************)
MaxTickers == 3

\* the pairs detect_session returns (lines 77-96)
SessionKeys == {field_pairs[n] : n \in 1..4}

\* one value per field, so that a displayed value names the field it is from
FieldValue(f) ==
    CASE f = "preMarketPrice" -> 101234
      [] f = "regularMarketPrice" -> 150000
      [] f = "postMarketPrice" -> 99871
      [] f = "overnightMarketPrice" -> 98002
      [] f = "preMarketChangePercent" -> 1234
      [] f = "regularMarketChangePercent" -> 1500
      [] f = "postMarketChangePercent" -> -504
      [] f = "overnightMarketChangePercent" -> -4

\* every QuoteRecord: any subset of the eight fields present
AllQuotes == {[f \in Fields |-> IF f \in present THEN Some(FieldValue(f)) ELSE None] :
                 present \in SUBSET Fields}

\* records with a regular price and one of several changes
ChangeValues == {None, Some(-500), Some(1200), Some(5000), Some(9000)}
RegularQuote(c) ==
    [f \in Fields |-> IF f = "regularMarketPrice" THEN Some(150000)
                      ELSE IF f = "regularMarketChangePercent" THEN c ELSE None]

FileLines == {<<"AAPL", "1">>, <<"MSFT", "1">>, <<"nvda">>, <<"AAPL">>, <<>>}
Files == UNION {[1..n -> FileLines] : n \in 0..MaxTickers}

StocksIdle ==
    /\ spc = "idle"
    /\ stocks_txt = <<>>
    /\ quotes_all = <<>>
    /\ active_price_key = "regularMarketPrice"
    /\ active_change_key = "regularMarketChangePercent"
    /\ df = <<>>
    /\ df_sorted = <<>>

\* no call of translate_news_text_cached in this call of fetch_latest_news yet
NoCall == [key |-> <<>>, hit |-> FALSE, ret |-> <<>>]

NewsIdle ==
    /\ npc = "idle"
    /\ run = 1
    /\ refreshes = 0
    /\ hash_seed = 0
    /\ cache_file = [st |-> "absent", data |-> <<>>]
    /\ cache = <<>>
    /\ sorted_news = <<>>
    /\ news_out = <<>>
    /\ computed = <<>>
    /\ last_call = NoCall

GateIdle ==
    /\ gpc = "idle"
    /\ responses = <<>>
    /\ gate_prices = <<>>

SessionIdle ==
    /\ dpc = "idle"
    /\ now_hour = 0
    /\ now_minute = 0
    /\ session = <<>>

LoopIdle ==
    /\ pc = "idle"
    /\ kpc = "idle"
    /\ stop_flag = FALSE
    /\ manual_refresh_flag = FALSE
    /\ show_more_news = FALSE
    /\ clock = StartTime
    /\ now = StartTime
    /\ prices = {}
    /\ force_refresh = FALSE
    /\ stock_df = "empty"
    /\ news_list = "empty"
    /\ last_stock_update = 0
    /\ last_news_update = 0
    /\ news_count = NEWS_DEFAULT
    /\ i = 0
    /\ fetched = {}
    /\ forced_only = {}
    /\ w_since_read = FALSE
    /\ stopped_in_wait = FALSE
    /\ sleeps_since_stop = 0

\* one ticker with any QuoteRecord (or a payload entry that is no dict)
InitOneTicker ==
    /\ \E m \in {<<>>, <<"1">>, <<"2">>, <<"3">>} : stocks_txt = <<<<"AAPL">> \o m>>
    /\ \/ \E q \in AllQuotes : quotes_all = [t \in {"AAPL"} |-> [dict |-> TRUE, q |-> q]]
       \/ quotes_all = [t \in {"AAPL"} |-> [dict |-> FALSE, q |-> EmptyQuote]]
    /\ \E k \in SessionKeys : active_price_key = k[1] /\ active_change_key = k[2]

\* a list of tickers with regular-session quotes of several changes
InitTickerList ==
    /\ stocks_txt \in Files
    /\ \E c \in [{"AAPL", "MSFT", "NVDA"} -> ChangeValues] :
          quotes_all = [t \in {"AAPL", "MSFT", "NVDA"} |->
                           [dict |-> TRUE, q |-> RegularQuote(c[t])]]
    /\ \E k \in {field_pairs[1], field_pairs[2]} :
          active_price_key = k[1] /\ active_change_key = k[2]

InitStocks ==
    /\ LoopIdle
    /\ GateIdle
    /\ SessionIdle
    /\ NewsIdle
    /\ spc = "input"
    /\ df = <<>>
    /\ df_sorted = <<>>
    /\ (InitOneTicker \/ InitTickerList)

\* line 379
FetchAllStocks ==
    /\ spc = "input"
    /\ df' = fetch_all_stocks(stocks_txt, quotes_all, active_price_key, active_change_key)
    /\ spc' = "fetched"
    /\ UNCHANGED <<loopVars, newsVars, stocks_txt, quotes_all, active_price_key,
                   active_change_key, df_sorted>>

\* lines 432-453, stock_df not empty
DisplayStocks ==
    /\ spc = "fetched"
    /\ df # <<>>
    /\ df_sorted' = display_rows(df)
    /\ spc' = "shown"
    /\ UNCHANGED <<loopVars, newsVars, stocks_txt, quotes_all, active_price_key,
                   active_change_key, df>>

\* lines 497-498, stock_df empty
DisplayNoStocks ==
    /\ spc = "fetched"
    /\ df = <<>>
    /\ spc' = "shown"
    /\ UNCHANGED <<loopVars, newsVars, stocks_txt, quotes_all, active_price_key,
                   active_change_key, df, df_sorted>>

NextStocks == FetchAllStocks \/ DisplayStocks \/ DisplayNoStocks

SpecStocks == InitStocks /\ [][NextStocks]_vars

(***************************************************************************)
(* The news module: clean_news_content, get_news_key, the translation      *)
(* cache and fetch_latest_news                                             *)
(***************************************************************************)
MaxFeed == 2             \* items in one payload of the news feed
MaxRefreshes == 2        \* calls of fetch_latest_news, over all runs
MaxRuns == 2             \* process runs

PREVIEW_LEN == 50
SOURCE_LIMIT == 200
SHOWN_LIMIT == 100

IsSpace(ch) == ch \in {" ", "\n", "\t"}

\* line 244: re.sub(r'<[^>]+>', '', content)
RECURSIVE StripTags(_)
StripTags(str) ==
    IF str = <<>> THEN <<>>
    ELSE LET closes == {j \in 3..Len(str) : str[j] = ">"}
         IN IF str[1] = "<" /\ Len(str) >= 2 /\ str[2] # ">" /\ closes # {}
            THEN StripTags(SubSeq(str, (CHOOSE j \in closes : \A m \in closes : j <= m) + 1,
                                  Len(str)))
            ELSE <<str[1]>> \o StripTags(Tail(str))

\* line 246: re.sub(r'\s+', ' ', content).strip()
RECURSIVE CollapseSpace(_)
CollapseSpace(str) ==
    IF str = <<>> THEN <<>>
    ELSE IF IsSpace(str[1])
    THEN IF Len(str) >= 2 /\ IsSpace(str[2]) THEN CollapseSpace(Tail(str))
         ELSE <<" ">> \o CollapseSpace(Tail(str))
    ELSE <<str[1]>> \o CollapseSpace(Tail(str))

RECURSIVE Strip(_)
Strip(str) ==
    IF str = <<>> THEN <<>>
    ELSE IF IsSpace(str[1]) THEN Strip(Tail(str))
    ELSE IF IsSpace(str[Len(str)]) THEN Strip(SubSeq(str, 1, Len(str) - 1))
    ELSE str

\* lines 241-247
clean_news_content(content) == Strip(CollapseSpace(StripTags(content)))

\* str[:n]
Take(str, n) == SubSeq(str, 1, IF Len(str) < n THEN Len(str) ELSE n)

\* hash(str) of a process whose string hashing is seeded with seed: equal
\* for equal strings in one process, seeded anew by every process start
\* unless PYTHONHASHSEED fixes it
StrHash(seed, str) == <<seed, str>>

\* lines 268-274
get_news_key(item, seed) ==
    <<item.time, StrHash(seed, Take(clean_news_content(item.content), PREVIEW_LEN))>>

\* translator.translate(text).text, and the message of line 289
Translated(text) == <<"Z", "H", ":">> \o text
ErrorMsg == <<"E", "R", "R">>

\* lines 276-291: the cache after the call, what it returns, and whether
\* the backend was invoked; ok tells whether the backend call succeeds
translate_no_error_cached(text, ok, c, news_key) ==
    IF news_key \in DOMAIN c THEN [cache |-> c, ret |-> c[news_key], invoked |-> FALSE]
    ELSE IF Strip(text) = <<>> THEN [cache |-> c, ret |-> text, invoked |-> FALSE]
    ELSE IF ok THEN [cache |-> c @@ (news_key :> Translated(text)),
                     ret |-> Translated(text), invoked |-> TRUE]
    ELSE [cache |-> c, ret |-> ErrorMsg, invoked |-> TRUE]
translate_news_text_cached(text, ok, c, news_key) ==
    IF news_key \in DOMAIN c THEN [cache |-> c, ret |-> c[news_key], invoked |-> FALSE]
    ELSE IF Strip(text) = <<>> THEN [cache |-> c, ret |-> text, invoked |-> FALSE]
    ELSE IF ok THEN [cache |-> c @@ (news_key :> Translated(text)),
                     ret |-> Translated(text), invoked |-> TRUE]
    ELSE [cache |-> c @@ (news_key :> ErrorMsg), ret |-> ErrorMsg, invoked |-> TRUE]

\* lines 332-333 and 336-337
Shorten(str, limit) ==
    IF Len(str) > limit THEN Take(str, limit) \o <<".", ".", ".">> ELSE str

\* line 306: sorted(data, key=time, reverse=True)[:count]; a stable sort
\* keeps the payload's order among equal times
TimeRank(t) == CHOOSE n \in 1..2 : <<"t1", "t2">>[n] = t
RECURSIVE InsertItem(_, _)
InsertItem(sorted, a) ==
    IF sorted = <<>> THEN <<a>>
    ELSE IF TimeRank(a.time) > TimeRank(Head(sorted).time) THEN <<a>> \o sorted
    ELSE <<Head(sorted)>> \o InsertItem(Tail(sorted), a)
RECURSIVE SortByTimeDesc(_)
SortByTimeDesc(data) ==
    IF data = <<>> THEN <<>>
    ELSE InsertItem(SortByTimeDesc(SubSeq(data, 1, Len(data) - 1)), data[Len(data)])

\* the payloads
Rep(ch, n) == [k \in 1..n |-> ch]
\* two contents that differ only after the preview, one with markup and
\* blanks, one that is blank
NewsItems ==
    { [time |-> "t1", important |-> 0, content |-> Rep("a", PREVIEW_LEN) \o <<"x">>],
      [time |-> "t1", important |-> 0, content |-> Rep("a", PREVIEW_LEN) \o <<"y">>],
      [time |-> "t2", important |-> 1,
       content |-> <<"<", "b", ">", "h", "i", "<", "/", "b", ">", " ", "\n", "u", " ">>],
      [time |-> "t1", important |-> 0, content |-> <<" ">>] }
Payloads == UNION {[1..n -> NewsItems] : n \in 1..MaxFeed}
HashSeeds == {1, 2}

\* the first process start: no cache file yet
InitNews ==
    /\ LoopIdle
    /\ GateIdle
    /\ SessionIdle
    /\ StocksIdle
    /\ npc = "ready"
    /\ run = 1
    /\ refreshes = 0
    /\ hash_seed \in HashSeeds
    /\ cache_file = [st |-> "absent", data |-> <<>>]
    /\ cache = <<>>
    /\ sorted_news = <<>>
    /\ news_out = <<>>
    /\ computed = <<>>
    /\ last_call = NoCall

\* lines 295-297: the request fails or the payload is no non-empty list
FetchNewsNone ==
    /\ npc = "ready"
    /\ refreshes < MaxRefreshes
    /\ refreshes' = refreshes + 1
    /\ news_out' = <<>>
    /\ UNCHANGED <<loopVars, stockVars, npc, run, hash_seed, cache_file, cache,
                   sorted_news, computed, last_call>>

\* lines 295-306 with load_translation_cache (lines 250-258) returning the
\* file's dict
FetchNewsLoad ==
    /\ npc = "ready"
    /\ refreshes < MaxRefreshes
    /\ refreshes' = refreshes + 1
    /\ cache_file.st = "ok"
    /\ cache' = cache_file.data
    /\ \E data \in Payloads, count \in {NEWS_DEFAULT, NEWS_MORE} :
          sorted_news' = Take(SortByTimeDesc(data), count)
    /\ news_out' = <<>>
    /\ computed' = <<>>
    /\ npc' = "loop"
    /\ UNCHANGED <<loopVars, stockVars, run, hash_seed, cache_file, last_call>>

\* the same with load_translation_cache returning {}: no file, or a file
\* that cannot be read or unpickled
FetchNewsLoadEmpty ==
    /\ npc = "ready"
    /\ refreshes < MaxRefreshes
    /\ refreshes' = refreshes + 1
    /\ cache' = <<>>
    /\ \E data \in Payloads, count \in {NEWS_DEFAULT, NEWS_MORE} :
          sorted_news' = Take(SortByTimeDesc(data), count)
    /\ news_out' = <<>>
    /\ computed' = <<>>
    /\ npc' = "loop"
    /\ UNCHANGED <<loopVars, stockVars, run, hash_seed, cache_file, last_call>>

Glyph(item) == IF item.important = 1 THEN "FIRE" ELSE "NEWS"
CountedCall(done, key, r) ==
    IF ~r.invoked THEN done
    ELSE IF key \in DOMAIN done THEN [done EXCEPT ![key].n = @ + 1]
    ELSE done @@ (key :> [n |-> 1, text |-> r.ret])

\* lines 309-345 for an item with content: the cached translation
NewsItemTranslate ==
    /\ npc = "loop"
    /\ sorted_news # <<>>
    /\ LET item == Head(sorted_news)
           news_key == get_news_key(item, hash_seed)
           text == Shorten(clean_news_content(item.content), SOURCE_LIMIT)
       IN /\ clean_news_content(item.content) # <<>>
          /\ \E ok \in BOOLEAN :
                LET r == translate_news_text_cached(text, ok, cache, news_key)
                IN /\ cache' = r.cache
                   /\ news_out' = Append(news_out,
                          [importance |-> Glyph(item), content |-> Shorten(r.ret, SHOWN_LIMIT)])
                   /\ computed' = CountedCall(computed, news_key, r)
                   /\ last_call' = [key |-> news_key, hit |-> news_key \in DOMAIN cache,
                                    ret |-> r.ret]
    /\ sorted_news' = Tail(sorted_news)
    /\ UNCHANGED <<loopVars, stockVars, npc, run, refreshes, hash_seed, cache_file>>

\* lines 309-345 for an item whose cleaned content is empty
NewsItemNoContent ==
    /\ npc = "loop"
    /\ sorted_news # <<>>
    /\ LET item == Head(sorted_news)
       IN /\ clean_news_content(item.content) = <<>>
          /\ news_out' = Append(news_out,
                [importance |-> Glyph(item), content |-> <<"-">>])
    /\ sorted_news' = Tail(sorted_news)
    /\ UNCHANGED <<loopVars, stockVars, npc, run, refreshes, hash_seed, cache_file,
                   cache, computed, last_call>>

\* lines 351-353 with save_translation_cache (lines 260-266) writing the file;
\* the locals of the call end with it
SaveCache ==
    /\ npc = "loop"
    /\ sorted_news = <<>>
    /\ cache_file' = [st |-> "ok", data |-> cache]
    /\ npc' = "ready"
    /\ cache' = <<>>
    /\ news_out' = <<>>
    /\ computed' = <<>>
    /\ last_call' = NoCall
    /\ UNCHANGED <<loopVars, stockVars, run, refreshes, hash_seed, sorted_news>>

\* the same with the write failing: open() fails and the file is as before,
\* or pickle.dump fails after open(..., 'wb') truncated it
SaveCacheFails ==
    /\ npc = "loop"
    /\ sorted_news = <<>>
    /\ \/ UNCHANGED cache_file
       \/ cache_file' = [st |-> "broken", data |-> <<>>]
    /\ npc' = "ready"
    /\ cache' = <<>>
    /\ news_out' = <<>>
    /\ computed' = <<>>
    /\ last_call' = NoCall
    /\ UNCHANGED <<loopVars, stockVars, run, refreshes, hash_seed, sorted_news>>

\* the process ends (at any point) and is started again: a new hash seed,
\* nothing in memory, the file as it is
Restart ==
    /\ npc \in {"ready", "loop"}
    /\ run < MaxRuns
    /\ run' = run + 1
    /\ hash_seed' \in HashSeeds
    /\ cache' = <<>>
    /\ sorted_news' = <<>>
    /\ news_out' = <<>>
    /\ computed' = <<>>
    /\ last_call' = NoCall
    /\ npc' = "ready"
    /\ UNCHANGED <<loopVars, stockVars, refreshes, cache_file>>

NextNews == \/ FetchNewsNone \/ FetchNewsLoad \/ FetchNewsLoadEmpty
            \/ NewsItemTranslate \/ NewsItemNoContent
            \/ SaveCache \/ SaveCacheFails \/ Restart

SpecNews == InitNews /\ [][NextNews]_vars

(***************************************************************************)
(* fetch_prices_from_gate, request by request                              *)
(***************************************************************************)
\* what one request can yield: a ticker list whose first entry has a numeric
\* "last"; an exception of requests.get (line 61); an error status, raised
\* by raise_for_status (line 62); a body that line 63 or 65 cannot use
ResponseKinds == {"ok", "timeout", "status", "malformed"}
Responses ==
    {[kind |-> "ok", last |-> v] : v \in {1, 2}}
        \cup {[kind |-> k, last |-> 0] : k \in ResponseKinds \ {"ok"}}

\* lines 60-65 from symbol number n on, with `acc` the dict built so far: an
\* exception leaves the for loop for the handler at lines 66-67
RECURSIVE gate_for(_, _, _)
gate_for(resp, n, acc) ==
    IF n > Len(Symbols) THEN acc
    ELSE IF resp[n].kind # "ok" THEN acc
    ELSE gate_for(resp, n + 1, acc @@ (Symbols[n] :> resp[n].last))

\* lines 57-68 for the responses resp
fetch_prices(resp) == gate_for(resp, 1, <<>>)

InitGate ==
    /\ LoopIdle
    /\ StocksIdle
    /\ NewsIdle
    /\ SessionIdle
    /\ gpc = "input"
    /\ responses \in [1..Len(Symbols) -> Responses]
    /\ gate_prices = <<>>

\* line 369
FetchPricesFromGate ==
    /\ gpc = "input"
    /\ gate_prices' = fetch_prices(responses)
    /\ gpc' = "returned"
    /\ UNCHANGED <<pc, kpc, stop_flag, manual_refresh_flag, show_more_news, clock, now,
                   prices, force_refresh, stock_df, news_list, last_stock_update,
                   last_news_update, news_count, i, fetched, forced_only, w_since_read,
                   stopped_in_wait, sleeps_since_stop, responses, sessionVars,
                   stockVars, newsVars>>

NextGate == FetchPricesFromGate

SpecGate == InitGate /\ [][NextGate]_vars

(***************************************************************************)
(* detect_session                                                          *)
(***************************************************************************)
\* lines 74-98 for the local time hour:minute.  h = hour + minute / 60 is
\* compared through 60 * h = 60 * hour + minute, which is exact: the only
\* values of h within a minute of 9.5 are 9 + 29/60, 9.5 and 9 + 31/60
detect_session_open(hour, minute) ==
    LET h60 == 60 * hour + minute
    IN  IF 4 * 60 < h60 /\ h60 <= 9 * 60 + 30
        THEN <<"PreMarket", "preMarketPrice", "preMarketChangePercent">>
        ELSE IF 9 * 60 + 30 < h60 /\ h60 <= 16 * 60
        THEN <<"Regular", "regularMarketPrice", "regularMarketChangePercent">>
        ELSE IF 16 * 60 < h60 /\ h60 <= 20 * 60
        THEN <<"AfterHours", "postMarketPrice", "postMarketChangePercent">>
        ELSE <<"Overnight", "overnightMarketPrice", "overnightMarketChangePercent">>
detect_session(hour, minute) ==
    LET h60 == 60 * hour + minute
    IN  IF 4 * 60 <= h60 /\ h60 < 9 * 60 + 30
        THEN <<"PreMarket", "preMarketPrice", "preMarketChangePercent">>
        ELSE IF 9 * 60 + 30 <= h60 /\ h60 < 16 * 60
        THEN <<"Regular", "regularMarketPrice", "regularMarketChangePercent">>
        ELSE IF 16 * 60 <= h60 /\ h60 < 20 * 60
        THEN <<"AfterHours", "postMarketPrice", "postMarketChangePercent">>
        ELSE <<"Overnight", "overnightMarketPrice", "overnightMarketChangePercent">>

InitSession ==
    /\ LoopIdle
    /\ StocksIdle
    /\ NewsIdle
    /\ GateIdle
    /\ dpc = "input"
    /\ now_hour \in 0..23
    /\ now_minute \in 0..59
    /\ session = <<>>

\* line 370
DetectSession ==
    /\ dpc = "input"
    /\ session' = detect_session(now_hour, now_minute)
    /\ dpc' = "detected"
    /\ UNCHANGED <<pc, kpc, stop_flag, manual_refresh_flag, show_more_news, clock, now,
                   prices, force_refresh, stock_df, news_list, last_stock_update,
                   last_news_update, news_count, i, fetched, forced_only, w_since_read,
                   stopped_in_wait, sleeps_since_stop, now_hour, now_minute, gateVars,
                   stockVars, newsVars>>

NextSession == DetectSession

SpecSession == InitSession /\ [][NextSession]_vars

\* lines 35-37, 358-365: globals and main's locals before the loop
Init ==
    /\ pc = "L367"
    /\ kpc = "L46"
    /\ stop_flag = FALSE
    /\ manual_refresh_flag = FALSE
    /\ show_more_news = FALSE
    /\ clock = StartTime
    /\ now = StartTime
    /\ prices = {}
    /\ force_refresh = FALSE
    /\ stock_df = "empty"
    /\ news_list = "empty"
    /\ last_stock_update = 0
    /\ last_news_update = 0
    /\ news_count = NEWS_DEFAULT
    /\ i = 0
    /\ fetched = {}
    /\ forced_only = {}
    /\ w_since_read = FALSE
    /\ stopped_in_wait = FALSE
    /\ sleeps_since_stop = 0
    /\ StocksIdle
    /\ NewsIdle
    /\ GateIdle
    /\ SessionIdle

Next == main \/ key_listener

Spec == Init /\ [][Next]_vars

(***************************************************************************)
(* Properties of the tick loop                                             *)
(***************************************************************************)
\* positions of a tick after its read of manual_refresh_flag at line 373
AfterRead == {"L374", "L375", "L378", "L383", "L394"} \cup WaitPcs
AfterStockCheck == {"L383", "L394"} \cup WaitPcs
AfterNewsCheck == {"L394"} \cup WaitPcs

\* C1: a tick that read manual_refresh_flag true (force_refresh) fetches
\* crypto, then equities at its equities check and news at its news check,
\* whatever the age of the snapshots; and when the next tick reads the flag
\* with no `w` handled since that read, the flag is false.
C1_ForcedTickRefetchesAll ==
    /\ (pc \in AfterRead /\ force_refresh) => "crypto" \in fetched
    /\ (pc \in AfterStockCheck /\ force_refresh) => "equities" \in fetched
    /\ (pc \in AfterNewsCheck /\ force_refresh) => fetched = Classes
    /\ (pc = "L373" /\ force_refresh /\ ~w_since_read) => ~manual_refresh_flag

\* a forced tick has fetched equities and news that nothing else made due
C1_Witness ==
    /\ pc = "L516"
    /\ force_refresh
    /\ fetched = Classes
    /\ forced_only = {"equities", "news"}
    /\ ~manual_refresh_flag

\* C2: the loop clears manual_refresh_flag (line 375) only in a tick that
\* treats the refresh as forced, so that no set is cleared unconsumed.
C2_NoSetLost == pc = "L375" => force_refresh

\* C3: once stop_flag is set during the idle wait, at most one more sleep
\* starts, and main goes from the wait to the loop test and returns without
\* starting another tick.
C3_StopEndsWait ==
    stopped_in_wait =>
        /\ pc \in WaitPcs \cup {"L367", "done"}
        /\ sleeps_since_stop <= 1

\* stop_flag came mid-way through the wait, one sleep later main has returned
C3_Witness ==
    /\ stopped_in_wait
    /\ pc = "done"
    /\ sleeps_since_stop = 1
    /\ i = RESET_STEP + 1

CRYPTO_CADENCE == WAIT_STEPS

C10_OnlyQuitEndsLoop ==
    /\ pc # "crashed"
    /\ pc = "done" => stop_flag

\* all three symbols, as a fetch with no failing request returns them
AllSymbols == {Symbols[n] : n \in 1..Len(Symbols)}

\* C11: a failed fetch never replaces a non-empty snapshot by an empty one:
\* a crypto fetch in which a request failed leaves non-empty prices
\* non-empty, a news fetch that failed leaves a non-empty news_list
\* non-empty, and an equities fetch that failed leaves stock_df as it was.
C11_FailedFetchKeepsSnapshot ==
    [][ /\ (pc = "L368" /\ pc' = "L373" /\ prices' # AllSymbols /\ prices # {})
              => prices' # {}
        /\ (L383Fail /\ news_list # "empty") => news_list' # "empty"
        /\ L378Raise => stock_df' = stock_df ]_vars

\* what main reads and writes besides the three module globals
mainState == <<pc, clock, now, prices, force_refresh, stock_df, news_list,
               last_stock_update, last_news_update, news_count, i>>

\* C14: the listener changes shared state only on its two commands: the
\* step of `q` sets stop_flag and leaves the two other flags alone, the two
\* steps of `w` set manual_refresh_flag, then show_more_news, any other key
\* changes nothing; no step of the listener clears manual_refresh_flag or
\* touches main's state, and no step of the program resets stop_flag.
C14_ListenerFrame ==
    [][ /\ stop_flag => stop_flag'
        /\ (kpc = "L46" /\ kpc' = "done")
              => stop_flag' /\ UNCHANGED <<manual_refresh_flag, show_more_news>>
        /\ (kpc = "L46" /\ kpc' = "L52")
              => manual_refresh_flag' /\ UNCHANGED <<stop_flag, show_more_news>>
        /\ (kpc = "L52" /\ kpc' = "L46")
              => show_more_news' /\ UNCHANGED <<stop_flag, manual_refresh_flag>>
        /\ KeyOther => UNCHANGED <<stop_flag, manual_refresh_flag, show_more_news>>
        /\ kpc' # kpc
              => (manual_refresh_flag => manual_refresh_flag') /\ UNCHANGED mainState
      ]_vars

\* `w`, then `q` were handled during an idle wait: all three flags are set
\* and the listener has ended
C14_Witness ==
    /\ kpc = "done"
    /\ pc \in WaitPcs
    /\ stop_flag
    /\ manual_refresh_flag
    /\ show_more_news

\* C15: a tick that consumed a manual refresh (read the flag true at line
\* 373) and has fetched news requested the expanded count.
C15_ForcedNewsFetchExpanded ==
    (pc \in AfterNewsCheck /\ force_refresh) => news_count = NEWS_MORE

\* C16: 30 steps into the idle wait of a tick that consumed a manual
\* refresh, with no `w` handled since the tick read the flag and none being
\* handled, the expansion is reverted (so a later news fetch requests the
\* default count); and line 520 never reverts it while manual_refresh_flag
\* is set.
C16_ExpansionExpiresUnlessPending ==
    /\ (pc = "L521" /\ i = RESET_STEP /\ force_refresh /\ ~w_since_read /\ kpc # "L52")
          => ~show_more_news /\ NewsCount(show_more_news) = NEWS_DEFAULT
    /\ pc = "L520" => ~manual_refresh_flag

(***************************************************************************)
(* Properties of the crypto fetch and of the session detection             *)
(***************************************************************************)
\* the symbols whose own request succeeded
Succeeded(resp) == {Symbols[n] : n \in {m \in 1..Len(Symbols) : resp[m].kind = "ok"}}

\* C12: the result of one crypto fetch holds exactly the symbols whose own
\* request succeeded, each with the price its response carried.
C12_FailedSymbolOnlyOmitted ==
    gpc = "returned" =>
        /\ DOMAIN gate_prices = Succeeded(responses)
        /\ \A n \in 1..Len(Symbols) :
              responses[n].kind = "ok" => gate_prices[Symbols[n]] = responses[n].last

\* the half-open intervals of the design, in minutes since local midnight
PhaseIntervals ==
    <<[phase |-> "PreMarket", from |-> 4 * 60, to |-> 9 * 60 + 30],
      [phase |-> "Regular", from |-> 9 * 60 + 30, to |-> 16 * 60],
      [phase |-> "AfterHours", from |-> 16 * 60, to |-> 20 * 60]>>
PhasesAt(m) ==
    {PhaseIntervals[n].phase :
        n \in {k \in 1..3 : PhaseIntervals[k].from <= m /\ m < PhaseIntervals[k].to}}
PhaseAt(m) == IF PhasesAt(m) = {} THEN "Overnight" ELSE CHOOSE ph \in PhasesAt(m) : TRUE
PairOfPhase(ph) ==
    CASE ph = "PreMarket" -> field_pairs[1]
      [] ph = "Regular" -> field_pairs[2]
      [] ph = "AfterHours" -> field_pairs[3]
      [] ph = "Overnight" -> field_pairs[4]

\* C13: for every local time of day detect_session returns the one phase
\* whose half-open interval holds the time (Overnight outside all three),
\* with that phase's price and change field; a boundary minute belongs to
\* the interval that starts there.
C13_PhaseByHalfOpenIntervals ==
    dpc = "detected" =>
        LET m == 60 * now_hour + now_minute
        IN  /\ Cardinality(PhasesAt(m)) <= 1
            /\ session[1] = PhaseAt(m)
            /\ <<session[2], session[3]>> = PairOfPhase(session[1])

\* the session was detected at 9:30 sharp and is Regular
C13_Witness ==
    /\ dpc = "detected"
    /\ now_hour = 9
    /\ now_minute = 30
    /\ session[1] = "Regular"

(***************************************************************************)
(* Properties of the resolver and of the display order                     *)
(***************************************************************************)
\* the fallback table of the design, by phase
PhaseOfKey(apk) ==
    CASE apk = "preMarketPrice" -> "PreMarket"
      [] apk = "regularMarketPrice" -> "Regular"
      [] apk = "postMarketPrice" -> "AfterHours"
      [] apk = "overnightMarketPrice" -> "Overnight"
KeyOfPhase(ph) == CHOOSE k \in {PriceKeys[n] : n \in 1..4} : PhaseOfKey(k) = ph
TableChain(ph) ==
    CASE ph = "PreMarket" -> <<"PreMarket", "Overnight", "Regular", "AfterHours">>
      [] ph = "Regular" -> <<"Regular", "PreMarket", "AfterHours", "Overnight">>
      [] ph = "AfterHours" -> <<"AfterHours", "Regular", "PreMarket", "Overnight">>
      [] ph = "Overnight" -> <<"Overnight", "AfterHours", "Regular", "PreMarket">>
ChangeKeyOf(pk) ==
    CASE pk = "preMarketPrice" -> "preMarketChangePercent"
      [] pk = "regularMarketPrice" -> "regularMarketChangePercent"
      [] pk = "postMarketPrice" -> "postMarketChangePercent"
      [] pk = "overnightMarketPrice" -> "overnightMarketChangePercent"

\* the first price field of the phase's chain present in q, "" when none is
ChosenField(q, apk) ==
    LET chain == TableChain(PhaseOfKey(apk))
        hits == {n \in 1..4 : q[KeyOfPhase(chain[n])] # None}
    IN IF hits = {} THEN ""
       ELSE KeyOfPhase(chain[CHOOSE n \in hits : \A m \in hits : n <= m])

AllPricesAbsent(q) == \A n \in 1..4 : q[PriceKeys[n]] = None

\* the record behind row n of df
RowQuote(n) == QuoteOf(quotes_all, read_tickers(stocks_txt)[n])

C17_NoPriceMeansBothUnavailable ==
    spc # "input" =>
        \A n \in DOMAIN df :
            AllPricesAbsent(RowQuote(n)) => (df[n].Price = NA /\ df[n].Change = NA)

C7_FallbackOrderAndPairedChange ==
    spc # "input" =>
        \A n \in DOMAIN df :
            LET q == RowQuote(n)
                chosen == ChosenField(q, active_price_key)
            IN chosen # "" =>
                  /\ df[n].Price = Fmt2(Val(q[chosen]), FALSE)
                  /\ df[n].Change = IF q[ChangeKeyOf(chosen)] = None THEN NA
                                    ELSE Fmt2(Val(q[ChangeKeyOf(chosen)]), TRUE) \o <<"%">>

\* pre-market: no pre-market and no overnight price, so the regular price is
\* taken before the after-hours one, with the regular change
C7_Witness ==
    /\ spc = "fetched"
    /\ Len(df) = 1
    /\ active_price_key = "preMarketPrice"
    /\ RowQuote(1)["preMarketPrice"] = None
    /\ RowQuote(1)["overnightMarketPrice"] = None
    /\ RowQuote(1)["postMarketPrice"] # None
    /\ df[1].Price = <<"1", "5", "0", ".", "0", "0">>
    /\ df[1].Change = <<"+", "1", ".", "5", "0", "%">>

\* the change percent of a displayed row, in hundredths as displayed: that
\* of its ticker's record in the active session, 0 when it is unavailable
ChangeValue(row) ==
    LET c == resolve(QuoteOf(quotes_all, row.Ticker[2]),
                     active_price_key, active_change_key).change
    IN IF c = None THEN 0
       ELSE IF Val(c) < 0 THEN -((5 - Val(c)) \div 10) ELSE (Val(c) + 5) \div 10
Marked(row) == row.Ticker[1] # "  "
\* how many rows show ticker tk with the change string ch (fetched rows get
\* the trailing blank of a signed change only when displayed)
CountShown(rows, tk, ch) ==
    Cardinality({n \in DOMAIN rows : rows[n].Ticker = tk /\ rows[n].Change = ch})
CountFetched(rows, tk, ch) ==
    Cardinality({n \in DOMAIN rows :
                    /\ rows[n].Ticker = tk
                    /\ rows[n].Change \in {ch, SubSeq(ch, 1, Len(ch) - 1)}
                    /\ rows[n].Change = ch <=> ch = NA})

\* C8: the displayed rows are the fetched rows, marked tickers before
\* unmarked ones and, within the same priority, by change percent
\* descending with an unavailable change counted as 0; the three-ticker
\* example is displayed as MSFT, AAPL, NVDA.
C8_DisplayOrder ==
    (spc = "shown" /\ df # <<>>) =>
        /\ Len(df_sorted) = Len(df)
        /\ \A n \in DOMAIN df_sorted :
              CountShown(df_sorted, df_sorted[n].Ticker, df_sorted[n].Change)
                  = CountFetched(df, df_sorted[n].Ticker, df_sorted[n].Change)
        /\ \A a, b \in DOMAIN df_sorted :
              a < b =>
                 /\ Marked(df_sorted[a]) \/ ~Marked(df_sorted[b])
                 /\ (Marked(df_sorted[a]) <=> Marked(df_sorted[b]))
                       => ChangeValue(df_sorted[a]) >= ChangeValue(df_sorted[b])
        /\ ( /\ stocks_txt = << <<"AAPL", "1">>, <<"MSFT", "1">>, <<"nvda">> >>
             /\ quotes_all["AAPL"].q["regularMarketChangePercent"] = Some(1200)
             /\ quotes_all["MSFT"].q["regularMarketChangePercent"] = Some(5000)
             /\ quotes_all["NVDA"].q["regularMarketChangePercent"] = Some(9000) )
           => [n \in 1..3 |-> df_sorted[n].Ticker[2]] = <<"MSFT", "AAPL", "NVDA">>

\* the example: AAPL +1.2% and MSFT +5.0% marked, NVDA +9.0% unmarked
C8_Witness ==
    /\ spc = "shown"
    /\ stocks_txt = << <<"AAPL", "1">>, <<"MSFT", "1">>, <<"nvda">> >>
    /\ quotes_all["AAPL"].q["regularMarketChangePercent"] = Some(1200)
    /\ quotes_all["MSFT"].q["regularMarketChangePercent"] = Some(5000)
    /\ quotes_all["NVDA"].q["regularMarketChangePercent"] = Some(9000)
    /\ [n \in 1..3 |-> df_sorted[n].Ticker[2]] = <<"MSFT", "AAPL", "NVDA">>

(***************************************************************************)
(* Properties of the translation cache                                     *)
(***************************************************************************)
\* C4: on one cache, the calls of translate_news_text_cached with one key
\* invoke the backend at most once in total, and a later call returns the
\* text the first one stored, a failure text included.
C4_OneBackendCallPerKey ==
    /\ \A k \in DOMAIN computed :
          /\ computed[k].n <= 1
          /\ k \in DOMAIN cache
          /\ cache[k] = computed[k].text
    /\ (npc = "loop" /\ last_call.hit /\ last_call.key \in DOMAIN computed)
          => last_call.ret = computed[last_call.key].text

\* the backend failed for a key and a second call with that key got the
\* stored failure text from the cache
C4_Witness ==
    /\ npc = "loop"
    /\ last_call.hit
    /\ last_call.key \in DOMAIN computed
    /\ computed[last_call.key].n = 1
    /\ last_call.ret = ErrorMsg
    /\ Len(news_out) = 2

\* the timestamp and the content preview a key was made from
KeyItem(k) == <<k[1], k[2][2]>>

\* C5: get_news_key gives one item the same key in every process run, so
\* the backing store and the cache loaded from it hold one entry per item:
\* a run never stores a second key for an item an earlier run persisted.
C5_KeysStableAcrossRuns ==
    \A k1, k2 \in DOMAIN cache_file.data \cup DOMAIN cache :
        KeyItem(k1) = KeyItem(k2) => k1 = k2

\* the entries of the cache in memory that the backing file does not hold
Unsaved == DOMAIN cache \ DOMAIN cache_file.data

\* C18: the cache is written to the backing file after each miss that
\* stores an entry, before the next item is handled: at no point of a news
\* refresh does the cache in memory hold more than one entry that the file
\* lacks.
C18_PersistedAfterEachMutation ==
    npc = "loop" => Cardinality(Unsaved) <= 1

\* C19: a key that the backing file holds stays in it with the same text,
\* whatever refreshes follow, failing loads and saves included.
C19_PersistedCacheOnlyGrows ==
    [][ \A k \in DOMAIN cache_file.data :
            /\ k \in DOMAIN cache_file'.data
            /\ cache_file'.data[k] = cache_file.data[k] ]_vars

\* the texts an entry of an item may show: the translation of the item's
\* own cleaned content, or the failure text
OwnTexts(item) ==
    {Shorten(Translated(Shorten(clean_news_content(item.content), SOURCE_LIMIT)),
             SHOWN_LIMIT),
     Shorten(ErrorMsg, SHOWN_LIMIT)}

\* C20: the entry appended for an item with non-empty cleaned content shows
\* the translation of that item's own content or the failure text, also
\* when another item has the same timestamp and the same first 50 cleaned
\* characters.
C20_EntryFromOwnContent ==
    [][ (/\ npc = "loop"
         /\ Len(news_out') = Len(news_out) + 1
         /\ clean_news_content(Head(sorted_news).content) # <<>>)
            => news_out'[Len(news_out')].content \in OwnTexts(Head(sorted_news)) ]_vars

====
